---- MODULE Spec2Model ----
(***************************************************************************)
(* A model of the Sudoku engine of src/src/context/SudokuContext.jsx: the  *)
(* constraint checker, the bounded solution counter, the puzzle digger,    *)
(* the violation detector, the hint selector and the game state held by    *)
(* SudokuProvider.  Grids are functions row -> (column -> value) over      *)
(* 0-based indices, as the arrays of the source are.                       *)
(***************************************************************************)
EXTENDS Integers, Sequences, FiniteSets

(***************************************************************************)
(* Grids and the two built-in solutions.                                   *)
(***************************************************************************)

\* A JavaScript array of arrays, given as a tuple of tuples, as a 0-based grid.
GridOf(rows) ==
    [r \in 0..(Len(rows) - 1) |-> [c \in 0..(Len(rows[r + 1]) - 1) |-> rows[r + 1][c + 1]]]

SOLUTION_6 ==
    GridOf(<< <<1, 2, 3, 4, 5, 6>>,
              <<4, 5, 6, 1, 2, 3>>,
              <<2, 3, 4, 5, 6, 1>>,
              <<5, 6, 1, 2, 3, 4>>,
              <<3, 4, 5, 6, 1, 2>>,
              <<6, 1, 2, 3, 4, 5>> >>)

SOLUTION_9 ==
    GridOf(<< <<1, 2, 3, 4, 5, 6, 7, 8, 9>>,
              <<4, 5, 6, 7, 8, 9, 1, 2, 3>>,
              <<7, 8, 9, 1, 2, 3, 4, 5, 6>>,
              <<2, 3, 4, 5, 6, 7, 8, 9, 1>>,
              <<5, 6, 7, 8, 9, 1, 2, 3, 4>>,
              <<8, 9, 1, 2, 3, 4, 5, 6, 7>>,
              <<3, 4, 5, 6, 7, 8, 9, 1, 2>>,
              <<6, 7, 8, 9, 1, 2, 3, 4, 5>>,
              <<9, 1, 2, 3, 4, 5, 6, 7, 8>> >>)

\* The empty array [] that the board states start as.
\* array.length of a grid (0 for the empty array).
LengthOf(array) == Cardinality(DOMAIN array)

\* clone2D copies every row; a grid value is its own copy.
clone2D(array) == [r \in DOMAIN array |-> [c \in DOMAIN array[r] |-> array[r][c]]]

(***************************************************************************)
(* Constraint checker.                                                     *)
(***************************************************************************)

getBlockDimensions(size) ==
    IF size = 6 THEN [blockRows |-> 2, blockCols |-> 3]
                ELSE [blockRows |-> 3, blockCols |-> 3]

isSafeMutant(board, row, col, num, size) ==
    LET bd == getBlockDimensions(size)
        startRow == row - (row % bd.blockCols)
        startCol == col - (col % bd.blockRows)
    IN  /\ ~ \E c \in 0..(size - 1) : board[row][c] = num
        /\ ~ \E r \in 0..(size - 1) : board[r][col] = num
        /\ ~ \E r \in startRow..(startRow + bd.blockCols - 1) :
                \E c \in startCol..(startCol + bd.blockRows - 1) : board[r][c] = num

isSafe(board, row, col, num, size) ==
    LET bd == getBlockDimensions(size)
        startRow == row - (row % bd.blockRows)
        startCol == col - (col % bd.blockCols)
    IN  /\ ~ \E c \in 0..(size - 1) : board[row][c] = num
        /\ ~ \E r \in 0..(size - 1) : board[r][col] = num
        /\ ~ \E r \in startRow..(startRow + bd.blockRows - 1) :
                \E c \in startCol..(startCol + bd.blockCols - 1) : board[r][c] = num

(***************************************************************************)
(* Solution counter.  countSolutions is run as a machine: the closure      *)
(* variable count, the board that backtrack writes in place, and the call  *)
(* stack of backtrack, one frame [row, col, num] per active call that has  *)
(* reached its candidate loop.  at is the position of the running call:    *)
(* "call" on entry to backtrack, "loop" at the head of "for num", "ret"    *)
(* just after the recursive call returned, "done" when the outermost call  *)
(* has returned.                                                           *)
(***************************************************************************)

\* The position of the first zero cell in row-major order (the labelled scan
\* of backtrack), as [row, col]; row = -1 when there is none.
FirstEmpty(board, size) ==
    LET rows == {r \in 0..(size - 1) : \E c \in 0..(size - 1) : board[r][c] = 0}
    IN  IF rows = {} THEN [row |-> -1, col |-> -1]
        ELSE LET row == CHOOSE r \in rows : \A q \in rows : r <= q
                 cols == {c \in 0..(size - 1) : board[row][c] = 0}
             IN  [row |-> row, col |-> CHOOSE c \in cols : \A q \in cols : c <= q]

\* Leaving the running call of backtrack: back in the caller, after its
\* "backtrack()" statement, or out of the outermost call.
Return(m) == [m EXCEPT !.at = IF m.stack = << >> THEN "done" ELSE "ret"]

LimitReachedMutant(count, limit) == count > limit

\* The test "count >= limit" of backtrack.
LimitReached(count, limit) == count >= limit

AfterCallMutant(m, limit) ==
    LET top == m.stack[Len(m.stack)]
    IN  IF LimitReached(m.count, limit)
        THEN Return([m EXCEPT !.stack = SubSeq(m.stack, 1, Len(m.stack) - 1)])
        ELSE [m EXCEPT !.board[top.row][top.col] = 0,
                       !.at = "loop", !.stack[Len(m.stack)].num = @ + 1]

\* The two statements after "backtrack()" in the candidate loop: the cell is
\* unplaced, then the call returns if the limit is reached, or the loop goes on.
AfterCall(m, limit) ==
    LET top      == m.stack[Len(m.stack)]
        unplaced == [m EXCEPT !.board[top.row][top.col] = 0]
    IN  IF LimitReached(unplaced.count, limit)
        THEN Return([unplaced EXCEPT !.stack = SubSeq(m.stack, 1, Len(m.stack) - 1)])
        ELSE [unplaced EXCEPT !.at = "loop", !.stack[Len(m.stack)].num = @ + 1]

\* One step of backtrack.
backtrack(m, size, limit) ==
    LET top == m.stack[Len(m.stack)]
    IN  CASE m.at = "call" ->
                IF LimitReached(m.count, limit) THEN Return(m)
                ELSE LET e == FirstEmpty(m.board, size)
                     IN  IF e.row = -1
                         THEN Return([m EXCEPT !.count = @ + 1])
                         ELSE [m EXCEPT !.at = "loop",
                                        !.stack = Append(@, [row |-> e.row, col |-> e.col, num |-> 1])]
          [] m.at = "loop" ->
                IF top.num > size
                THEN Return([m EXCEPT !.stack = SubSeq(m.stack, 1, Len(m.stack) - 1)])
                ELSE IF isSafe(m.board, top.row, top.col, top.num, size)
                     THEN [m EXCEPT !.board[top.row][top.col] = top.num, !.at = "call"]
                     ELSE [m EXCEPT !.stack[Len(m.stack)].num = @ + 1]
          [] m.at = "ret" -> AfterCall(m, limit)
          [] OTHER -> m

\* n steps of backtrack, or fewer if the outermost call returns first; the
\* run is halved so that the evaluation stays shallow.
RECURSIVE RunSteps(_, _, _, _)
RunSteps(m, n, size, limit) ==
    IF m.at = "done" THEN m
    ELSE IF n <= 1 THEN backtrack(m, size, limit)
    ELSE RunSteps(RunSteps(m, n \div 2, size, limit), n - (n \div 2), size, limit)

\* backtrack run until the outermost call has returned.
RECURSIVE RunToReturn(_, _, _, _)
RunToReturn(m, n, size, limit) ==
    LET after == RunSteps(m, n, size, limit)
    IN  IF after.at = "done" THEN after ELSE RunToReturn(after, 2 * n, size, limit)

\* countSolutions, as [board, count]: the argument array and the count on return.
countSolutionsRun(board, size, limit) ==
    LET m == RunToReturn([board |-> board, count |-> 0, stack |-> << >>, at |-> "call"],
                         64, size, limit)
    IN  [board |-> m.board, count |-> m.count]

countSolutions(board, size, limit) == countSolutionsRun(board, size, limit).count

(***************************************************************************)
(* Puzzle digger.  Math.random is an input: RandomIndex(seed, i) is the    *)
(* value of Math.floor(Math.random() * (i + 1)) drawn at step i of the     *)
(* shuffle, one sequence of draws per seed.                                *)
(***************************************************************************)

RandomIndex(seed, i) == (((seed + 1) * 7919 + i * 104729 + i * i * (seed + 3) * 31) % 1009) % (i + 1)

\* The Fisher-Yates loop for i from hi down to lo, on the 1-based tuple of
\* indices; the range is halved so that the evaluation stays shallow.
RECURSIVE ShuffleRange(_, _, _, _)
ShuffleRange(indices, hi, lo, seed) ==
    IF Len(indices) <= 1 \/ hi < lo THEN indices
    ELSE IF hi = lo
         THEN LET j == RandomIndex(seed, hi)
              IN  [indices EXCEPT ![hi + 1] = indices[j + 1], ![j + 1] = indices[hi + 1]]
         ELSE LET mid == (lo + hi) \div 2
              IN  ShuffleRange(ShuffleRange(indices, hi, mid + 1, seed), mid, lo, seed)

ShuffledIndices(totalCells, seed) ==
    ShuffleRange([k \in 1..totalCells |-> k - 1], totalCells - 1, 1, seed)

DigVisitCountsMutant(dig, idx, size) ==
    LET r == idx \div size
        c == idx % size
    IN  IF dig.board[r][c] = 0 THEN dig
        ELSE LET holed     == [dig.board EXCEPT ![r][c] = 0]
                 solutions == countSolutions(clone2D(holed), size, 2)
             IN  IF solutions # 1 THEN [dig EXCEPT !.removed = @ + 1]
                 ELSE [board |-> holed, removed |-> dig.removed + 1]

DigVisitMutant(dig, idx, size) ==
    LET r == idx \div size
        c == idx % size
    IN  IF dig.board[r][c] = 0 THEN dig
        ELSE LET holed     == [dig.board EXCEPT ![r][c] = 0]
                 solutions == countSolutions(clone2D(holed), size, 2)
             IN  IF solutions = 0 THEN dig
                 ELSE [board |-> holed, removed |-> dig.removed + 1]

\* One iteration of "for (const idx of indices)" after the break test, on the
\* digger's locals [board, removed].
DigVisit(dig, idx, size) ==
    LET r == idx \div size
        c == idx % size
    IN  IF dig.board[r][c] = 0 THEN dig
        ELSE LET backup    == dig.board[r][c]
                 holed     == [dig.board EXCEPT ![r][c] = 0]
                 temp      == clone2D(holed)
                 solutions == countSolutions(temp, size, 2)
             IN  IF solutions # 1
                 THEN [dig EXCEPT !.board = [holed EXCEPT ![r][c] = backup]]
                 ELSE [board |-> holed, removed |-> dig.removed + 1]

\* The loop "for (const idx of indices)" over indices[lo..hi]: the break test
\* on removed, then the visit.  The range is halved so that the evaluation
\* stays shallow.
RECURSIVE DigRange(_, _, _, _, _, _)
DigRange(dig, indices, lo, hi, size, maxToRemove) ==
    IF dig.removed >= maxToRemove \/ lo > hi THEN dig
    ELSE IF lo = hi THEN DigVisit(dig, indices[lo], size)
    ELSE LET mid == (lo + hi) \div 2
         IN  DigRange(DigRange(dig, indices, lo, mid, size, maxToRemove),
                      indices, mid + 1, hi, size, maxToRemove)

\* makeUniquePuzzleFromSolution with the shuffle's random draws named by seed.
makeUniquePuzzleFromSolution(solution, cluesCount, seed) ==
    LET size        == LengthOf(solution)
        totalCells  == size * size
        indices     == ShuffledIndices(totalCells, seed)
        maxToRemove == totalCells - cluesCount
    IN  DigRange([board |-> clone2D(solution), removed |-> 0],
                 indices, 1, totalCells, size, maxToRemove).board

(***************************************************************************)
(* Violation detector.  A cell key "r-c" is the pair <<r, c>>, and the     *)
(* errors object is the set of its keys.                                   *)
(***************************************************************************)

\* The cells scanned into one "seen" object: each row, each column and each
\* block, for the two supported sizes.
ScanGroups ==
    [size \in {6, 9} |->
        LET bd == getBlockDimensions(size)
            n  == size - 1
        IN  {{<<r, c>> : c \in 0..n} : r \in 0..n}
            \cup {{<<r, c>> : r \in 0..n} : c \in 0..n}
            \cup {{<<r, c>> : r \in br..(br + bd.blockRows - 1),
                              c \in bc..(bc + bd.blockCols - 1)} :
                     br \in {x \in 0..n : x % bd.blockRows = 0},
                     bc \in {x \in 0..n : x % bd.blockCols = 0}}]

MarkedInMutant(board, group) ==
    LET seen == [v \in {board[d[1]][d[2]] : d \in group} \ {0} |->
                    {d \in group : board[d[1]][d[2]] = v}]
    IN  UNION {{d \in seen[v] : \E e \in seen[v] : e[1] * 9 + e[2] < d[1] * 9 + d[2]} :
                  v \in DOMAIN seen}

\* One scan: seen[v] collects the cells of the group holding v # 0, and every
\* cell of a list longer than one is marked.
MarkedIn(board, group) ==
    LET seen == [v \in {board[d[1]][d[2]] : d \in group} \ {0} |->
                    {d \in group : board[d[1]][d[2]] = v}]
    IN  UNION {seen[v] : v \in {w \in DOMAIN seen : Cardinality(seen[w]) > 1}}

computeErrors(board, size) ==
    UNION {MarkedIn(board, group) : group \in ScanGroups[size]}

(***************************************************************************)
(* The value argument of updateCell.  A string is the tuple of its         *)
(* characters; Number(value) is a record: nan, or the sign, the whole part *)
(* and whether the fraction digits are not all zero.                       *)
(***************************************************************************)

Digits == <<"0", "1", "2", "3", "4", "5", "6", "7", "8", "9">>

IsDigit(ch) == \E d \in 1..10 : Digits[d] = ch

DigitValue(ch) == (CHOOSE d \in 1..10 : Digits[d] = ch) - 1

\* StringToNumber's StrWhiteSpace trimmed from both ends.
Trim(str) ==
    LET inked == {k \in 1..Len(str) : str[k] # " "}
    IN  IF inked = {} THEN << >>
        ELSE SubSeq(str, CHOOSE k \in inked : \A q \in inked : k <= q,
                         CHOOSE k \in inked : \A q \in inked : k >= q)

\* The value of a run of decimal digits.
RECURSIVE DecimalValue(_)
DecimalValue(ds) ==
    IF ds = << >> THEN 0
    ELSE 10 * DecimalValue(SubSeq(ds, 1, Len(ds) - 1)) + DigitValue(ds[Len(ds)])

NaN == [nan |-> TRUE, neg |-> FALSE, whole |-> 0, fraction |-> FALSE]

\* Number(value) for a string of digits, spaces, "." and "-"; any other
\* character makes the string no decimal literal.
Number(value) ==
    LET t      == Trim(value)
        neg    == t # << >> /\ t[1] = "-"
        body   == IF neg THEN SubSeq(t, 2, Len(t)) ELSE t
        dots   == {k \in 1..Len(body) : body[k] = "."}
        dot    == IF dots = {} THEN Len(body) + 1 ELSE CHOOSE k \in dots : TRUE
        whole  == SubSeq(body, 1, dot - 1)
        frac   == SubSeq(body, dot + 1, Len(body))
    IN  IF t = << >> THEN [nan |-> FALSE, neg |-> FALSE, whole |-> 0, fraction |-> FALSE]
        ELSE IF \/ Cardinality(dots) > 1
                \/ whole = << >> /\ frac = << >>
                \/ \E k \in 1..Len(whole) : ~IsDigit(whole[k])
                \/ \E k \in 1..Len(frac) : ~IsDigit(frac[k])
             THEN NaN
             ELSE [nan |-> FALSE, neg |-> neg, whole |-> DecimalValue(whole),
                   fraction |-> DecimalValue(frac) # 0]

\* Number.isInteger(num)
IsInteger(num) == ~num.nan /\ ~num.fraction

\* The integer that an integral num is.
IntegerOf(num) == IF num.neg THEN 0 - num.whole ELSE num.whole

(***************************************************************************)
(* Bounds of the model and the inputs drawn within them.                   *)
(***************************************************************************)

\* Seeds 0..MaxSeed name the sequences of Math.random draws.
MaxSeed == 1

\* The timer is followed for MaxElapsed ticks of a game.
MaxElapsed == 1

\* The player edits the last MaxOpenCells empty cells of the puzzle (and clicks
\* a clue cell); a game saved by an earlier session has these cells still open.
MaxOpenCells == 1

\* countSolutions is called with limit in 1..MaxLimit.
MaxLimit == 3

\* The modes startNewGame is called with.
Modes == {"easy"}

\* The strings typed into a cell.
RawValues ==
    { << >>, <<"1">>, <<"2">>, <<"3">>, <<"4">>, <<"5">>, <<"6">>,
      <<"0">>, <<"7">>, <<"1", "0">>, <<" ", "3">>, <<"2", ".", "5">>,
      <<"-", "1">>, <<"a">>, <<" ">> }

(***************************************************************************)
(* The state of SudokuProvider.  null is "none" for mode, 0 for size and   *)
(* the empty tuple for hintCell; the arrays start as [].  storage is the   *)
(* localStorage item under STORAGE_KEY: empty, or the one saved payload.   *)
(* mounted tells whether the mount effects have run.  lastCall names the   *)
(* handler that ran last, the hint target it found set and, for            *)
(* updateCell, whether its target was a clue cell and whether its value    *)
(* was "" or converts to 1..size.  dug holds, by mode and seed, the puzzle *)
(* makeUniquePuzzleFromSolution returns to startNewGame, computed once.    *)
(***************************************************************************)
VARIABLES mode, size, solutionBoard, initialBoard, board, status, errors,
          elapsed, hintCell, storage, mounted, lastCall, dug

(***************************************************************************)
(* Direct calls of the engine's functions.  grid is the array passed, of   *)
(* side gsize, and ret what the call returned: for countSolutions the      *)
(* count and the argument array as the call left it.  digger is one run of *)
(* makeUniquePuzzleFromSolution: its arguments, the shuffled indices, the  *)
(* position pos of the loop in them, and the locals board and removed.     *)
(***************************************************************************)
VARIABLES grid, gsize, ret, digger

(***************************************************************************)
(* The server's PUT /api/sudoku/:id requests for one id.  games is the     *)
(* collection as far as that id goes: empty, or the one stored game with   *)
(* its completedBy array.  requests holds, for each request, the logged-in *)
(* username, where its handler stands, and the completedBy of the document *)
(* findById gave it.                                                       *)
(***************************************************************************)
VARIABLES games, requests

gameState == <<mode, size, solutionBoard, initialBoard, board, status, errors,
               elapsed, hintCell>>

gameVars == <<mode, size, solutionBoard, initialBoard, board, status, errors,
              elapsed, hintCell, storage, mounted, lastCall, dug>>

putVars == <<games, requests>>

callVars == <<grid, gsize, ret, digger, putVars>>

vars == <<gameVars, callVars>>

NoCell == << >>

NoItem == << >>

\* What lastCall records of a call: the handler, and the hint target the call
\* found set.
Call(op) == [op |-> op, clue |-> FALSE, valid |-> FALSE, hint |-> hintCell]

\* The payload of the save effect.
Payload(m, sz, sol, init, b, e, el, st, h) ==
    [mode |-> m, size |-> sz, solutionBoard |-> sol, initialBoard |-> init,
     board |-> b, errors |-> e, elapsed |-> el, status |-> st, hintCell |-> h]

\* The save effect, run on the state a handler has set: nothing for an empty
\* board or an idle game, the item removed for a completed one, else saved.
SaveEffect(old, m, sz, sol, init, b, e, el, st, h) ==
    IF LengthOf(b) = 0 \/ st = "idle" THEN old
    ELSE IF st = "completed" THEN NoItem
    ELSE <<Payload(m, sz, sol, init, b, e, el, st, h)>>

\* The puzzles startNewGame digs, by mode and seed.
isEasy(newMode) == newMode = "easy"

PuzzleOf ==
    [newMode \in Modes, seed \in 0..MaxSeed |->
        makeUniquePuzzleFromSolution(IF isEasy(newMode) THEN SOLUTION_6 ELSE SOLUTION_9,
                                     IF isEasy(newMode) THEN 18 ELSE 30, seed)]

\* The cells of a size x size grid, and the row-major index of a cell.
Cells(n) == (0..(n - 1)) \X (0..(n - 1))

IndexOf(cell, n) == cell[1] * n + cell[2]

\* The last k empty cells of a grid in row-major order.
LastHoles(puzzle, k) ==
    LET n     == LengthOf(puzzle)
        holes == {cell \in Cells(n) : puzzle[cell[1]][cell[2]] = 0}
    IN  {h \in holes : Cardinality({g \in holes : IndexOf(g, n) > IndexOf(h, n)}) < k}

\* The first clue cell of a grid in row-major order.
FirstClue(puzzle) ==
    LET n     == LengthOf(puzzle)
        clues == {cell \in Cells(n) : puzzle[cell[1]][cell[2]] # 0}
    IN  {h \in clues : \A g \in clues : IndexOf(h, n) <= IndexOf(g, n)}

\* The cells the player clicks.
PlayCells == FirstClue(initialBoard) \cup LastHoles(initialBoard, MaxOpenCells)

\* A game an earlier session saved: an easy puzzle filled in from its solution
\* except for its last MaxOpenCells empty cells, after any time played.
SavedGames(puzzles) ==
    {LET puzzle == puzzles["easy", saved[1]]
         open   == LastHoles(puzzle, MaxOpenCells)
     IN  Payload("easy", 6, clone2D(SOLUTION_6), puzzle,
                 [r \in 0..5 |-> [c \in 0..5 |->
                     IF <<r, c>> \in open THEN 0 ELSE SOLUTION_6[r][c]]],
                 {}, saved[2], "playing", NoCell) : saved \in (0..MaxSeed) \X (0..MaxElapsed)}

NoReturn == [op |-> "none"]

NoDigger == [at |-> "idle"]

\* No request has been made of the server.
PutIdle ==
    /\ games = << >>
    /\ requests = << >>

\* No direct call is under way.
CallsIdle ==
    /\ grid = << >>
    /\ gsize = 0
    /\ ret = NoReturn
    /\ digger = NoDigger
    /\ PutIdle

\* The state of SudokuProvider on construction.
GameIdle ==
    /\ mode = "none"
    /\ size = 0
    /\ solutionBoard = << >>
    /\ initialBoard = << >>
    /\ board = << >>
    /\ status = "idle"
    /\ errors = {}
    /\ elapsed = 0
    /\ hintCell = NoCell
    /\ mounted = FALSE
    /\ lastCall = Call("none")

Init ==
    /\ dug = PuzzleOf
    /\ GameIdle
    /\ storage \in {NoItem} \cup {<<saved>> : saved \in SavedGames(dug)}
    /\ CallsIdle

\* The mount effects: the saved game, if any, is restored, then saved again.
LoadSavedGame ==
    /\ ~mounted
    /\ mounted' = TRUE
    /\ lastCall' = Call("load")
    /\ UNCHANGED dug
    /\ IF storage = NoItem
       THEN UNCHANGED <<gameState, storage>>
       ELSE LET saved == storage[1]
            IN  /\ mode' = saved.mode
                /\ size' = saved.size
                /\ solutionBoard' = saved.solutionBoard
                /\ initialBoard' = saved.initialBoard
                /\ board' = saved.board
                /\ errors' = saved.errors
                /\ elapsed' = saved.elapsed
                /\ status' = saved.status
                /\ hintCell' = saved.hintCell
                /\ storage' = SaveEffect(storage, saved.mode, saved.size,
                                         saved.solutionBoard, saved.initialBoard,
                                         saved.board, saved.errors, saved.elapsed,
                                         saved.status, saved.hintCell)

startNewGame(newMode, seed) ==
    LET solution == IF isEasy(newMode) THEN SOLUTION_6 ELSE SOLUTION_9
        puzzle   == dug[newMode, seed]
    IN  /\ mounted
        /\ mode' = newMode
        /\ size' = IF isEasy(newMode) THEN 6 ELSE 9
        /\ solutionBoard' = clone2D(solution)
        /\ initialBoard' = clone2D(puzzle)
        /\ board' = clone2D(puzzle)
        /\ errors' = {}
        /\ elapsed' = 0
        /\ status' = "playing"
        /\ hintCell' = NoCell
        /\ storage' = SaveEffect(NoItem, mode', size', solutionBoard', initialBoard',
                                 board', errors', elapsed', status', hintCell')
        /\ lastCall' = Call("startNewGame")
        /\ UNCHANGED <<mounted, dug>>

resetGameKeepsHintMutant ==
    /\ mounted
    /\ lastCall' = Call("resetGame")
    /\ IF LengthOf(initialBoard) = 0
       THEN UNCHANGED <<gameState, storage, mounted, dug>>
       ELSE /\ board' = clone2D(initialBoard)
            /\ errors' = {}
            /\ elapsed' = 0
            /\ status' = "playing"
            /\ hintCell' = hintCell
            /\ storage' = SaveEffect(NoItem, mode, size, solutionBoard, initialBoard,
                                     board', errors', elapsed', status', hintCell')
            /\ UNCHANGED <<mode, size, solutionBoard, initialBoard, mounted, dug>>

resetGameMutant ==
    /\ mounted
    /\ lastCall' = Call("resetGame")
    /\ IF LengthOf(initialBoard) = 0
       THEN UNCHANGED <<gameState, storage, mounted, dug>>
       ELSE /\ board' = clone2D(initialBoard)
            /\ errors' = {}
            /\ status' = "playing"
            /\ hintCell' = NoCell
            /\ storage' = SaveEffect(NoItem, mode, size, solutionBoard, initialBoard,
                                     board', errors', elapsed, status', hintCell')
            /\ UNCHANGED <<mode, size, solutionBoard, initialBoard, elapsed, mounted, dug>>

resetGame ==
    /\ mounted
    /\ lastCall' = Call("resetGame")
    /\ IF LengthOf(initialBoard) = 0
       THEN UNCHANGED <<gameState, storage, mounted, dug>>
       ELSE /\ board' = clone2D(initialBoard)
            /\ errors' = {}
            /\ elapsed' = 0
            /\ status' = "playing"
            /\ hintCell' = NoCell
            /\ storage' = SaveEffect(NoItem, mode, size, solutionBoard, initialBoard,
                                     board', errors', elapsed', status', hintCell')
            /\ UNCHANGED <<mode, size, solutionBoard, initialBoard, mounted, dug>>

\* Whether value is "" or converts to an integer in 1..n.
Accepted(value, n) ==
    \/ value = << >>
    \/ /\ IsInteger(Number(value))
       /\ IntegerOf(Number(value)) >= 1
       /\ IntegerOf(Number(value)) <= n

\* What lastCall records of an updateCell call.
UpdateCall(row, col, value) ==
    [op    |-> "updateCell",
     clue  |-> LengthOf(initialBoard) # 0 /\ initialBoard[row][col] # 0,
     valid |-> Accepted(value, size),
     hint  |-> hintCell]

EditsClueMutant(row, col, value) ==
    \/ status # "playing"
    \/ LengthOf(board) = 0
    \/ /\ value # << >>
       /\ \/ ~IsInteger(Number(value))
          \/ IntegerOf(Number(value)) < 1
          \/ IntegerOf(Number(value)) > size

NoUpperBoundMutant(row, col, value) ==
    \/ status # "playing"
    \/ LengthOf(board) = 0
    \/ initialBoard[row][col] # 0
    \/ /\ value # << >>
       /\ \/ ~IsInteger(Number(value))
          \/ IntegerOf(Number(value)) < 1

NoStatusCheckMutant(row, col, value) ==
    \/ LengthOf(board) = 0
    \/ initialBoard[row][col] # 0
    \/ /\ value # << >>
       /\ \/ ~IsInteger(Number(value))
          \/ IntegerOf(Number(value)) < 1
          \/ IntegerOf(Number(value)) > size

\* The early returns of updateCell: no game being played, no board, a clue
\* cell, or a value that is neither "" nor an integer in 1..size.
ReturnsEarly(row, col, value) ==
    \/ status # "playing"
    \/ LengthOf(board) = 0
    \/ initialBoard[row][col] # 0
    \/ /\ value # << >>
       /\ \/ ~IsInteger(Number(value))
          \/ IntegerOf(Number(value)) < 1
          \/ IntegerOf(Number(value)) > size

StatusAfterNoErrorsMutant(hasEmpty, hasErrors) ==
    IF ~hasErrors THEN "completed" ELSE "playing"

StatusAfterMutant(hasEmpty, hasErrors) ==
    IF ~hasEmpty THEN "completed" ELSE "playing"

\* The status updateCell sets after an edit.
StatusAfter(hasEmpty, hasErrors) ==
    IF ~hasEmpty /\ ~hasErrors THEN "completed" ELSE "playing"

updateCellStaleErrorsMutant(row, col, value) ==
    LET num        == IF value = << >> THEN 0 ELSE IntegerOf(Number(value))
        next       == [board EXCEPT ![row][col] = num]
        nextErrors == computeErrors(board, size)
        hasEmpty   == \E r \in DOMAIN next : \E c \in DOMAIN next[r] : next[r][c] = 0
        hasErrors  == Cardinality(nextErrors) > 0
    IN  /\ mounted
        /\ lastCall' = UpdateCall(row, col, value)
        /\ IF ReturnsEarly(row, col, value)
           THEN UNCHANGED <<gameState, storage, mounted, dug>>
           ELSE /\ board' = next
                /\ errors' = nextErrors
                /\ hintCell' = NoCell
                /\ status' = StatusAfter(hasEmpty, hasErrors)
                /\ storage' = SaveEffect(storage, mode, size, solutionBoard, initialBoard,
                                         board', errors', elapsed, status', hintCell')
                /\ UNCHANGED <<mode, size, solutionBoard, initialBoard, elapsed, mounted, dug>>

updateCellMutant(row, col, value) ==
    LET num        == IF value = << >> THEN 0 ELSE IntegerOf(Number(value))
        next       == [board EXCEPT ![row][col] = num]
        nextErrors == computeErrors(next, size)
        hasEmpty   == \E r \in DOMAIN next : \E c \in DOMAIN next[r] : next[r][c] = 0
        hasErrors  == Cardinality(nextErrors) > 0
    IN  /\ mounted
        /\ lastCall' = UpdateCall(row, col, value)
        /\ IF ReturnsEarly(row, col, value)
           THEN UNCHANGED <<gameState, storage, mounted, dug>>
           ELSE /\ board' = next
                /\ errors' = nextErrors
                /\ hintCell' = hintCell
                /\ status' = StatusAfter(hasEmpty, hasErrors)
                /\ storage' = SaveEffect(storage, mode, size, solutionBoard, initialBoard,
                                         board', errors', elapsed, status', hintCell')
                /\ UNCHANGED <<mode, size, solutionBoard, initialBoard, elapsed, mounted, dug>>

updateCell(row, col, value) ==
    LET num        == IF value = << >> THEN 0 ELSE IntegerOf(Number(value))
        next       == [board EXCEPT ![row][col] = num]
        nextErrors == computeErrors(next, size)
        hasEmpty   == \E r \in DOMAIN next : \E c \in DOMAIN next[r] : next[r][c] = 0
        hasErrors  == Cardinality(nextErrors) > 0
    IN  /\ mounted
        /\ lastCall' = UpdateCall(row, col, value)
        /\ IF ReturnsEarly(row, col, value)
           THEN UNCHANGED <<gameState, storage, mounted, dug>>
           ELSE /\ board' = next
                /\ errors' = nextErrors
                /\ hintCell' = NoCell
                /\ status' = StatusAfter(hasEmpty, hasErrors)
                /\ storage' = SaveEffect(storage, mode, size, solutionBoard, initialBoard,
                                         board', errors', elapsed, status', hintCell')
                /\ UNCHANGED <<mode, size, solutionBoard, initialBoard, elapsed, mounted, dug>>

\* The candidates array of giveHint for cell (r, c) after the loop over v from
\* v on, with its break once two candidates are found.
RECURSIVE CandidatesFrom(_, _, _, _, _)
CandidatesFrom(candidates, r, c, v, b) ==
    IF v > size THEN candidates
    ELSE LET temp       == [b EXCEPT ![r][c] = v]
             tempErrors == computeErrors(temp, size)
             found      == IF <<r, c>> \notin tempErrors
                           THEN Append(candidates, v) ELSE candidates
         IN  IF Len(found) > 1 THEN found
             ELSE CandidatesFrom(found, r, c, v + 1, b)

IsHintMutant(candidates) == Len(candidates) >= 1

\* The test "candidates.length === 1" that makes a cell the hint target.
IsHint(candidates) == Len(candidates) = 1

RECURSIVE HintFromMutant(_)
HintFromMutant(i) ==
    IF i >= size * size THEN NoCell
    ELSE LET r     == i \div size
             c     == i % size
             later == HintFromMutant(i + 1)
         IN  IF later # NoCell THEN later
             ELSE IF board[r][c] = 0 /\ IsHint(CandidatesFrom(<< >>, r, c, 1, board))
                  THEN <<r, c>>
             ELSE NoCell

\* The scan of giveHint from row-major index i on: the cell it sets as hint
\* target, or NoCell when it falls through.
RECURSIVE HintFrom(_)
HintFrom(i) ==
    IF i >= size * size THEN NoCell
    ELSE LET r == i \div size
             c == i % size
         IN  IF board[r][c] # 0 THEN HintFrom(i + 1)
             ELSE IF IsHint(CandidatesFrom(<< >>, r, c, 1, board)) THEN <<r, c>>
             ELSE HintFrom(i + 1)

giveHint ==
    /\ mounted
    /\ lastCall' = Call("giveHint")
    /\ IF status # "playing" \/ LengthOf(board) = 0 \/ size = 0
       THEN UNCHANGED <<gameState, storage, mounted, dug>>
       ELSE LET target == HintFrom(0)
            IN  IF target = NoCell
                THEN UNCHANGED <<gameState, storage, mounted, dug>>
                ELSE /\ hintCell' = target
                     /\ storage' = SaveEffect(storage, mode, size, solutionBoard,
                                              initialBoard, board, errors, elapsed,
                                              status, hintCell')
                     /\ UNCHANGED <<mode, size, solutionBoard, initialBoard, board,
                                    status, errors, elapsed, mounted, dug>>

TickMutant ==
    /\ mounted
    /\ elapsed < MaxElapsed
    /\ elapsed' = elapsed + 1
    /\ storage' = SaveEffect(storage, mode, size, solutionBoard, initialBoard, board,
                             errors, elapsed', status, hintCell)
    /\ lastCall' = Call("tick")
    /\ UNCHANGED <<mode, size, solutionBoard, initialBoard, board, status, errors,
                   hintCell, mounted, dug>>

\* One firing of the interval the timer effect keeps while status is "playing".
Tick ==
    /\ mounted
    /\ status = "playing"
    /\ elapsed < MaxElapsed
    /\ elapsed' = elapsed + 1
    /\ storage' = SaveEffect(storage, mode, size, solutionBoard, initialBoard, board,
                             errors, elapsed', status, hintCell)
    /\ lastCall' = Call("tick")
    /\ UNCHANGED <<mode, size, solutionBoard, initialBoard, board, status, errors,
                   hintCell, mounted, dug>>

StartNewGame == \E newMode \in Modes, seed \in 0..MaxSeed : startNewGame(newMode, seed)

\* The cells updateCell is called on: those the player clicks, or the corner
\* when there is no board.
EditCells == IF LengthOf(initialBoard) = 0 THEN {<<0, 0>>} ELSE PlayCells

UpdateCell ==
    \E cell \in EditCells :
        \E value \in RawValues : updateCell(cell[1], cell[2], value)

Next ==
    \/ LoadSavedGame /\ UNCHANGED callVars
    \/ StartNewGame /\ UNCHANGED callVars
    \/ resetGame /\ UNCHANGED callVars
    \/ UpdateCell /\ UNCHANGED callVars
    \/ giveHint /\ UNCHANGED callVars
    \/ Tick /\ UNCHANGED callVars

Spec == Init /\ [][Next]_vars

(***************************************************************************)
(* Calls of isSafe, countSolutions and computeErrors on a grid.  The grid  *)
(* is a solution overwritten in the first MaxPokes cells of PokeOrder,     *)
(* each with 0, its own value or the value two further on: the four        *)
(* corners of the first two rows of SOLUTION_6 hold 1 4 / 4 1, so that     *)
(* grids with two completions are among the inputs, and the fifth cell     *)
(* can hold the 1 of its box a second time.                                *)
(***************************************************************************)

MaxPokes == 5

PokeOrder == << <<0, 0>>, <<0, 3>>, <<1, 0>>, <<1, 3>>, <<1, 1>>, <<2, 0>> >>

PokeCells == {PokeOrder[k] : k \in 1..(IF MaxPokes < Len(PokeOrder) THEN MaxPokes ELSE Len(PokeOrder))}

GridInputs(n) ==
    LET solution == IF n = 6 THEN SOLUTION_6 ELSE SOLUTION_9
        choices  == [cell \in PokeCells |->
                        LET own == solution[cell[1]][cell[2]]
                        IN  {0, own, ((own + 1) % n) + 1}]
        pokes    == {f \in [PokeCells -> 0..n] : \A cell \in PokeCells : f[cell] \in choices[cell]}
    IN  {[r \in 0..(n - 1) |-> [c \in 0..(n - 1) |->
            IF <<r, c>> \in PokeCells THEN f[<<r, c>>] ELSE solution[r][c]]] : f \in pokes}

InitGrid ==
    /\ GameIdle
    /\ storage = NoItem
    /\ dug = << >>
    /\ gsize \in {6, 9}
    /\ grid \in GridInputs(gsize)
    /\ ret = NoReturn
    /\ digger = NoDigger
    /\ PutIdle

CallIsSafe ==
    /\ ret = NoReturn
    /\ \E row \in 0..(gsize - 1), col \in 0..(gsize - 1), num \in 1..gsize :
          ret' = [op |-> "isSafe", row |-> row, col |-> col, num |-> num,
                  value |-> isSafe(grid, row, col, num, gsize)]
    /\ UNCHANGED <<grid, gsize, digger, gameVars, putVars>>

CallCountSolutions ==
    /\ ret = NoReturn
    /\ \E limit \in 1..MaxLimit :
          LET run == countSolutionsRun(grid, gsize, limit)
          IN  ret' = [op |-> "countSolutions", limit |-> limit,
                      count |-> run.count, board |-> run.board]
    /\ UNCHANGED <<grid, gsize, digger, gameVars, putVars>>

CallComputeErrors ==
    /\ ret = NoReturn
    /\ ret' = [op |-> "computeErrors", errors |-> computeErrors(grid, gsize)]
    /\ UNCHANGED <<grid, gsize, digger, gameVars, putVars>>

NextGrid ==
    \/ CallIsSafe
    \/ CallCountSolutions
    \/ CallComputeErrors

SpecGrid == InitGrid /\ [][NextGrid]_vars

(***************************************************************************)
(* Runs of makeUniquePuzzleFromSolution, one loop iteration at a time.     *)
(* The arrays are objects on a heap: solutionRows and boardRows name the    *)
(* row arrays of the solution passed in and of the digger's board, and     *)
(* heap holds what each row array contains; solution is the grid as it     *)
(* was at the call, and board the contents of the digger's board.          *)
(***************************************************************************)

\* The solution and cluesCount arguments of the runs.
DigInputs ==
    {[solution |-> SOLUTION_6, cluesCount |-> k] : k \in {0, 18, 30, 36, 40}}
    \cup {[solution |-> SOLUTION_9, cluesCount |-> k] : k \in {76, 81}}

clone2DRowsMutant(rows, used) == rows

\* clone2D on the heap of arrays: array.map builds a new outer array and each
\* spread a new row, so the rows of the copy are arrays that did not exist
\* before, numbered here after the used arrays there are.
clone2DRows(rows, used) == [r \in DOMAIN rows |-> used + r]

InitDig ==
    /\ GameIdle
    /\ storage = NoItem
    /\ dug = << >>
    /\ grid = << >>
    /\ gsize = 0
    /\ ret = NoReturn
    /\ PutIdle
    /\ \E input \in DigInputs, seed \in 0..MaxSeed :
          LET n == LengthOf(input.solution)
          IN  digger = [at |-> "loop", solution |-> input.solution,
                        cluesCount |-> input.cluesCount, seed |-> seed,
                        indices |-> ShuffledIndices(n * n, seed),
                        maxToRemove |-> n * n - input.cluesCount,
                        pos |-> 1, board |-> clone2D(input.solution), removed |-> 0,
                        solutionRows |-> [r \in 0..(n - 1) |-> r],
                        boardRows |-> clone2DRows([r \in 0..(n - 1) |-> r], n),
                        heap |-> [row \in 0..(2 * n - 1) |-> input.solution[row % n]]]

\* One iteration of the digger's loop.
DigLoop ==
    /\ digger.at = "loop"
    /\ digger.pos <= Len(digger.indices)
    /\ digger.removed < digger.maxToRemove
    /\ LET after == DigVisit([board |-> digger.board, removed |-> digger.removed],
                             digger.indices[digger.pos], LengthOf(digger.solution))
       IN  digger' = [digger EXCEPT
                        !.board = after.board, !.removed = after.removed, !.pos = @ + 1,
                        !.heap = [row \in DOMAIN digger.heap |->
                                     IF \E r \in DOMAIN digger.boardRows : digger.boardRows[r] = row
                                     THEN after.board[CHOOSE r \in DOMAIN digger.boardRows :
                                                         digger.boardRows[r] = row]
                                     ELSE digger.heap[row]]]
    /\ UNCHANGED <<grid, gsize, ret, gameVars, putVars>>

\* The loop ends, by its break or at the end of the indices, and board is returned.
DigReturn ==
    /\ digger.at = "loop"
    /\ digger.pos > Len(digger.indices) \/ digger.removed >= digger.maxToRemove
    /\ digger' = [digger EXCEPT !.at = "done"]
    /\ UNCHANGED <<grid, gsize, ret, gameVars, putVars>>

NextDig ==
    \/ DigLoop
    \/ DigReturn

SpecDig == InitDig /\ [][NextDig]_vars

(***************************************************************************)
(* Hints on a game in mid-play.  The game starts in a state the player     *)
(* reaches from startNewGame by edits: every empty cell of the puzzle      *)
(* filled with the solution's value except the first MaxTyped, which hold  *)
(* nothing or any value the player has typed, right or wrong.              *)
(***************************************************************************)

MaxTyped == 3

\* The first k empty cells of a grid in row-major order.
FirstHoles(puzzle, k) ==
    LET n     == LengthOf(puzzle)
        holes == {cell \in Cells(n) : puzzle[cell[1]][cell[2]] = 0}
    IN  {h \in holes : Cardinality({g \in holes : IndexOf(g, n) < IndexOf(h, n)}) < k}

\* The boards the edits leave on a puzzle.
EditedBoards(puzzle) ==
    LET typed == FirstHoles(puzzle, MaxTyped)
    IN  {[r \in 0..5 |-> [c \in 0..5 |->
            IF <<r, c>> \in typed THEN f[<<r, c>>] ELSE SOLUTION_6[r][c]]] :
                f \in [typed -> 0..6]}

InitHint ==
    /\ dug = PuzzleOf
    /\ CallsIdle
    /\ mounted = TRUE
    /\ mode = "easy"
    /\ size = 6
    /\ solutionBoard = clone2D(SOLUTION_6)
    /\ \E seed \in 0..MaxSeed :
          /\ initialBoard = dug["easy", seed]
          /\ board \in EditedBoards(dug["easy", seed])
    /\ errors = computeErrors(board, 6)
    /\ elapsed = 0
    /\ status = StatusAfter(\E r \in DOMAIN board : \E c \in DOMAIN board[r] : board[r][c] = 0,
                            Cardinality(errors) > 0)
    /\ hintCell = NoCell
    /\ storage = SaveEffect(NoItem, mode, size, solutionBoard, initialBoard, board,
                            errors, elapsed, status, hintCell)
    /\ lastCall = [op |-> "updateCell", clue |-> FALSE, valid |-> TRUE, hint |-> NoCell]

NextHint == giveHint /\ UNCHANGED callVars

SpecHint == InitHint /\ [][NextHint]_vars

(***************************************************************************)
(* PUT /api/sudoku/:id.  A handler runs from one await to the next without *)
(* interruption; at an await another request's handler may run.            *)
(***************************************************************************)

MaxRequests == 2

Users == {"ann", "bob"}

\* array.includes(item).
Includes(array, item) == \E k \in DOMAIN array : array[k] = item

\* What game.save() may leave as the stored completedBy after a push on the
\* document: the pushed element appended to the stored array, or the
\* document's array written whole.
SaveWrites(stored, doc, username) == {Append(stored, username), doc}

InitPut ==
    /\ GameIdle
    /\ storage = NoItem
    /\ dug = << >>
    /\ grid = << >>
    /\ gsize = 0
    /\ ret = NoReturn
    /\ digger = NoDigger
    /\ games \in {<< >>, <<[completedBy |-> << >>]>>, <<[completedBy |-> <<"ann">>]>>}
    /\ requests \in [1..MaxRequests ->
                        {[username |-> u, at |-> "findById", doc |-> << >>] : u \in Users}]

\* await Game.findById(req.params.id), and the 404 when there is no game.
PutFindById(q) ==
    /\ requests[q].at = "findById"
    /\ requests' = [requests EXCEPT ![q] =
                      IF games = << >>
                      THEN [@ EXCEPT !.at = "done"]
                      ELSE [@ EXCEPT !.at = "includes", !.doc = games[1].completedBy]]
    /\ UNCHANGED <<games, grid, gsize, ret, digger, gameVars>>

\* The includes test and the push on the document, up to the call of save.
PutIncludes(q) ==
    /\ requests[q].at = "includes"
    /\ requests' = [requests EXCEPT ![q] =
                      IF ~Includes(@.doc, @.username)
                      THEN [@ EXCEPT !.at = "save", !.doc = Append(@, requests[q].username)]
                      ELSE [@ EXCEPT !.at = "json"]]
    /\ UNCHANGED <<games, grid, gsize, ret, digger, gameVars>>

\* await game.save().
PutSave(q) ==
    /\ requests[q].at = "save"
    /\ games # << >>
    /\ \E written \in SaveWrites(games[1].completedBy, requests[q].doc, requests[q].username) :
          games' = <<[completedBy |-> written]>>
    /\ requests' = [requests EXCEPT ![q].at = "json"]
    /\ UNCHANGED <<grid, gsize, ret, digger, gameVars>>

\* res.json({ ok: true }).
PutJson(q) ==
    /\ requests[q].at = "json"
    /\ requests' = [requests EXCEPT ![q].at = "done"]
    /\ UNCHANGED <<games, grid, gsize, ret, digger, gameVars>>

NextPut ==
    \E q \in DOMAIN requests :
        \/ PutFindById(q)
        \/ PutIncludes(q)
        \/ PutSave(q)
        \/ PutJson(q)

SpecPut == InitPut /\ [][NextPut]_vars

(***************************************************************************)
(* What the claims speak of, stated apart from the code: the cells that    *)
(* share a row, a column or a box with a cell, the boxes being 2 x 3 for   *)
(* size 6 and 3 x 3 for size 9.                                            *)
(***************************************************************************)

BoxRows(n) == IF n = 6 THEN 2 ELSE 3

BoxCols(n) == 3

SameRow(a, b) == a[1] = b[1]

SameCol(a, b) == a[2] = b[2]

SameBox(a, b, n) ==
    /\ a[1] \div BoxRows(n) = b[1] \div BoxRows(n)
    /\ a[2] \div BoxCols(n) = b[2] \div BoxCols(n)

\* The other cells of the row, the column and the box of each cell.
Peers ==
    [n \in {6, 9} |->
        [a \in Cells(n) |->
            {b \in Cells(n) : b # a /\ (SameRow(a, b) \/ SameCol(a, b) \/ SameBox(a, b, n))}]]

\* No two filled cells of a row, a column or a box of g hold the same value.
Consistent(g, n) ==
    \A a \in Cells(n) :
        g[a[1]][a[2]] # 0 => \A b \in Peers[n][a] : g[b[1]][b[2]] # g[a[1]][a[2]]

EmptyCells(g, n) == {a \in Cells(n) : g[a[1]][a[2]] = 0}

\* The number of fillings of the empty cells of g that leave no duplicate in
\* any row, column or box: a duplicate of the filled grid lies between two
\* cells given in g or involves a filled-in cell.
SolutionCount(g, n) ==
    IF ~Consistent(g, n) THEN 0
    ELSE LET holes == EmptyCells(g, n)
         IN  Cardinality({f \in [holes -> 1..n] :
                \A a \in holes : \A b \in Peers[n][a] :
                    f[a] # (IF b \in holes THEN f[b] ELSE g[b[1]][b[2]])})

Least(x, y) == IF x <= y THEN x ELSE y

(***************************************************************************)
(* The claims.                                                             *)
(***************************************************************************)

\* C1: the grid makeUniquePuzzleFromSolution returns has exactly one
\* completion: countSolutions of it with limit 2 is 1, whatever the solved
\* grid, cluesCount and shuffle order.
C1_DiggerUnique ==
    digger.at = "done" =>
        countSolutions(digger.board, LengthOf(digger.solution), 2) = 1

\* A run that has returned after keeping some removals and reverting others.
C1_Witness ==
    /\ digger.at = "done"
    /\ digger.removed > 0
    /\ digger.pos - 1 > digger.removed

\* C2 as claimed: for every grid with entries in 0..size and every limit,
\* countSolutions returns the smaller of the solution count and limit.
C2_AnyGrid ==
    ret.op = "countSolutions" =>
        ret.count = Least(SolutionCount(grid, gsize), ret.limit)

\* C2 amended: for every grid in which no two filled cells of a row, column
\* or box hold the same value, countSolutions returns the smaller of the
\* solution count and limit.
C2_ConsistentGrid ==
    (ret.op = "countSolutions" /\ Consistent(grid, gsize)) =>
        ret.count = Least(SolutionCount(grid, gsize), ret.limit)

\* A consistent grid with two completions counted under a limit of three.
C2_Witness ==
    /\ ret.op = "countSolutions"
    /\ Consistent(grid, gsize)
    /\ ret.limit = 3
    /\ ret.count = 2

\* C5: isSafe returns false exactly when the value occurs in the row, in the
\* column or in the box of the cell.
C5_IsSafeExact ==
    ret.op = "isSafe" =>
        (ret.value = FALSE <=>
            \E b \in Cells(gsize) :
                /\ grid[b[1]][b[2]] = ret.num
                /\ \/ SameRow(b, <<ret.row, ret.col>>)
                   \/ SameCol(b, <<ret.row, ret.col>>)
                   \/ SameBox(b, <<ret.row, ret.col>>, gsize))

\* isSafe has returned false for a value held only by the box of the cell.
C5_Witness ==
    /\ ret.op = "isSafe"
    /\ ret.value = FALSE
    /\ \A b \in Cells(gsize) :
          (SameRow(b, <<ret.row, ret.col>>) \/ SameCol(b, <<ret.row, ret.col>>))
              => grid[b[1]][b[2]] # ret.num

\* C6: computeErrors marks a cell exactly when the cell is nonzero and another
\* cell of its row, column or box holds the same value.
C6_ErrorsExact ==
    ret.op = "computeErrors" =>
        \A a \in Cells(gsize) :
            a \in ret.errors <=>
                /\ grid[a[1]][a[2]] # 0
                /\ \E b \in Peers[gsize][a] : grid[b[1]][b[2]] = grid[a[1]][a[2]]

\* computeErrors has marked cells of a grid that also has empty cells.
C6_Witness ==
    /\ ret.op = "computeErrors"
    /\ Cardinality(ret.errors) >= 2
    /\ EmptyCells(grid, gsize) # {}

\* C10: when countSolutions returns, the grid argument is cell for cell what
\* it was on entry.
C10_GridRestored ==
    ret.op = "countSolutions" => ret.board = grid

\* countSolutions has left by its early exit, with cells to fill.
C10_Witness ==
    /\ ret.op = "countSolutions"
    /\ ret.count = ret.limit
    /\ EmptyCells(grid, gsize) # {}
    /\ SolutionCount(grid, gsize) > ret.limit

\* C3: in every state of a game, every cell that is nonzero in initialBoard
\* holds that same value in the working board.
C3_CluesPreserved ==
    LengthOf(board) # 0 =>
        \A cell \in Cells(size) :
            initialBoard[cell[1]][cell[2]] # 0 =>
                board[cell[1]][cell[2]] = initialBoard[cell[1]][cell[2]]

\* updateCell has been called on a clue cell with an acceptable value while
\* the game was being played.
C3_Witness ==
    /\ status = "playing"
    /\ lastCall.op = "updateCell"
    /\ lastCall.clue
    /\ lastCall.valid

\* C4: in every state of a game, status is "completed" exactly when the
\* working board has no zero cell and computeErrors of it is empty.
C4_CompletedExact ==
    LengthOf(board) # 0 =>
        (status = "completed" <=>
            /\ EmptyCells(board, size) = {}
            /\ computeErrors(board, size) = {})

\* An edit has completed the game.
C4_Witness ==
    /\ status = "completed"
    /\ lastCall.op = "updateCell"
    /\ EmptyCells(board, size) = {}

\* C7: when giveHint has set a hint target, that cell is empty in the working
\* board and exactly one value of 1..size, written there, leaves the cell
\* outside computeErrors of the resulting board.
C7_HintValid ==
    (lastCall.op = "giveHint" /\ hintCell # NoCell) =>
        /\ board[hintCell[1]][hintCell[2]] = 0
        /\ Cardinality({v \in 1..size :
              hintCell \notin
                  computeErrors([board EXCEPT ![hintCell[1]][hintCell[2]] = v], size)}) = 1

\* giveHint has set a target on a board with several empty cells.
C7_Witness ==
    /\ lastCall.op = "giveHint"
    /\ hintCell # NoCell
    /\ Cardinality(EmptyCells(board, size)) > 1

\* C8: an updateCell call on a clue cell, or with a value that is neither ""
\* nor the numeral of an integer in 1..size, leaves board, errors, hint
\* target, status and elapsed unchanged.  lastCall records, of the call a
\* step makes, whether its cell is a clue and whether its value is such.
C8_RejectedEditNoOp ==
    [][(/\ lastCall'.op = "updateCell"
        /\ lastCall'.clue \/ ~lastCall'.valid)
          => UNCHANGED <<board, errors, hintCell, status, elapsed>>]_vars

\* updateCell has been called on an empty cell of a game being played with a
\* value it does not accept.
C8_Witness ==
    /\ status = "playing"
    /\ lastCall.op = "updateCell"
    /\ ~lastCall.clue
    /\ ~lastCall.valid

\* C9 as claimed: whenever status is not "playing", each of updateCell,
\* giveHint and resetGame leaves board, errors, hint target, status and
\* elapsed unchanged.
C9_EveryOperationNoOp ==
    [][(status # "playing" /\ (UpdateCell \/ giveHint \/ resetGame))
          => UNCHANGED <<board, errors, hintCell, status, elapsed>>]_vars

\* C9 amended: whenever status is not "playing", updateCell and giveHint leave
\* board, errors, hint target, status and elapsed unchanged; resetGame leaves
\* them unchanged when no game has been started, and on a completed game it
\* puts the initial board back and sets status to "playing".
C9_NoOpUnlessPlaying ==
    [][/\ (status # "playing" /\ (UpdateCell \/ giveHint))
            => UNCHANGED <<board, errors, hintCell, status, elapsed>>
       /\ (LengthOf(initialBoard) = 0 /\ resetGame)
            => UNCHANGED <<board, errors, hintCell, status, elapsed>>
       /\ (status = "completed" /\ resetGame)
            => (board' = initialBoard /\ status' = "playing")]_vars

\* giveHint has been called on a completed game.
C9_Witness ==
    /\ status = "completed"
    /\ lastCall.op = "giveHint"

\* C11: a resetGame step on a started game leaves the working board equal to
\* initialBoard cell for cell, errors empty and elapsed 0, whatever the
\* state it is taken in.
C11_ResetRestores ==
    [][(LengthOf(initialBoard) # 0 /\ resetGame)
          => /\ \A cell \in Cells(size) :
                    board'[cell[1]][cell[2]] = initialBoard'[cell[1]][cell[2]]
             /\ errors' = {}
             /\ elapsed' = 0]_vars

\* resetGame has been called on a game and has left the initial board.
C11_Witness ==
    /\ lastCall.op = "resetGame"
    /\ LengthOf(initialBoard) # 0
    /\ board = initialBoard
    /\ elapsed = 0

\* C12: every edit updateCell applies leaves the hint target unset, also when
\* giveHint had set one; a step of updateCell that changes the board never
\* leaves a hint target.
C12_EditClearsHint ==
    [][/\ (/\ lastCall'.op = "updateCell"
           /\ status = "playing"
           /\ ~lastCall'.clue
           /\ lastCall'.valid) => hintCell' = NoCell
       /\ (lastCall'.op = "updateCell" /\ board' # board) => hintCell' = NoCell]_vars

\* updateCell has applied an edit to a board on which a hint target was set.
C12_Witness ==
    /\ lastCall.op = "updateCell"
    /\ lastCall.hint # NoCell
    /\ ~lastCall.clue
    /\ lastCall.valid
    /\ hintCell = NoCell

\* C13: for cluesCount up to size * size, the grid that
\* makeUniquePuzzleFromSolution returns has at most size * size - cluesCount
\* zero cells, every nonzero cell of it holds the solution's value, and it
\* has fewer zero cells than that only when zeroing any one of its remaining
\* clues gives a grid whose countSolutions with limit 2 is not 1.
C13_DiggerCount ==
    digger.at = "done" =>
        LET n      == LengthOf(digger.solution)
            bound  == n * n - digger.cluesCount
            zeros  == Cardinality(EmptyCells(digger.board, n))
        IN  /\ digger.cluesCount <= n * n => zeros <= bound
            /\ \A cell \in Cells(n) :
                  digger.board[cell[1]][cell[2]] # 0 =>
                      digger.board[cell[1]][cell[2]] = digger.solution[cell[1]][cell[2]]
            /\ zeros < bound =>
                  \A cell \in Cells(n) :
                      digger.board[cell[1]][cell[2]] # 0 =>
                          countSolutions([digger.board EXCEPT ![cell[1]][cell[2]] = 0], n, 2) # 1

\* A run has returned with some cells zeroed but fewer than it was allowed.
C13_Witness ==
    /\ digger.at = "done"
    /\ digger.removed > 0
    /\ Cardinality(EmptyCells(digger.board, LengthOf(digger.solution)))
          < LengthOf(digger.solution) * LengthOf(digger.solution) - digger.cluesCount

\* An empty cell of the working board b for which exactly one value of 1..n,
\* written there, leaves the cell outside computeErrors.
Qualifies(b, cell, n) ==
    /\ b[cell[1]][cell[2]] = 0
    /\ Cardinality({v \in 1..n :
          cell \notin computeErrors([b EXCEPT ![cell[1]][cell[2]] = v], n)}) = 1

\* C14: a giveHint step on a game being played changes nothing but the hint
\* target; it sets the target to the first cell in row-major order that is
\* empty and has exactly one non-conflicting value, and when no cell is such
\* it leaves the target as it was, unset.
C14_FirstHint ==
    [][(/\ lastCall'.op = "giveHint"
        /\ status = "playing"
        /\ LengthOf(board) # 0)
          => /\ UNCHANGED <<board, errors, status, elapsed>>
             /\ IF hintCell' # NoCell
                THEN /\ Qualifies(board, hintCell', size)
                     /\ \A cell \in Cells(size) :
                           IndexOf(cell, size) < IndexOf(hintCell', size)
                               => ~Qualifies(board, cell, size)
                ELSE /\ hintCell = NoCell
                     /\ \A cell \in Cells(size) : ~Qualifies(board, cell, size)]_vars

\* giveHint has set a target although a later cell also has exactly one
\* non-conflicting value.
C14_Witness ==
    /\ lastCall.op = "giveHint"
    /\ hintCell # NoCell
    /\ \E cell \in Cells(size) :
          /\ IndexOf(cell, size) > IndexOf(hintCell, size)
          /\ Qualifies(board, cell, size)

C15_BoardsReadOnly ==
    [][/\ lastCall'.op \in {"updateCell", "resetGame", "giveHint", "tick"}
            => UNCHANGED <<solutionBoard, initialBoard>>
       /\ LengthOf(solutionBoard') # 0
            => solutionBoard' = (IF size' = 6 THEN SOLUTION_6 ELSE SOLUTION_9)]_vars

\* C16 as claimed: elapsed changes only by a timer tick taken while status is
\* "playing", which adds 1, or by startNewGame or resetGame, which set it to
\* 0; while status is "idle" or "completed" nothing else changes it.
C16_OnlyTicksAndResets ==
    [][elapsed' # elapsed
          => \/ lastCall'.op = "tick" /\ status = "playing" /\ elapsed' = elapsed + 1
             \/ lastCall'.op \in {"startNewGame", "resetGame"} /\ elapsed' = 0]_vars

\* C16 amended: elapsed changes only by a timer tick taken while status is
\* "playing", which adds 1, by startNewGame or resetGame, which set it to 0,
\* or by the mount effect, which sets it to the elapsed of the saved game.
C16_TicksResetsAndLoad ==
    [][elapsed' # elapsed
          => \/ lastCall'.op = "tick" /\ status = "playing" /\ elapsed' = elapsed + 1
             \/ lastCall'.op \in {"startNewGame", "resetGame"} /\ elapsed' = 0
             \/ /\ lastCall'.op = "load"
                /\ storage # NoItem
                /\ elapsed' = storage[1].elapsed]_vars

\* A game has been completed after time had elapsed, and a call has been made
\* on it since.
C16_Witness ==
    /\ status = "completed"
    /\ elapsed > 0
    /\ lastCall.op \in {"giveHint", "updateCell"}
    /\ storage = NoItem

\* C17: in every state of a game the stored errors are computeErrors of the
\* working board; the dug puzzle and the reset board, whose errors are set
\* to empty without a computation, hold no violation.
C17_ErrorsCurrent ==
    LengthOf(board) # 0 =>
        /\ errors = computeErrors(board, size)
        /\ computeErrors(initialBoard, size) = {}

\* An edit has left violations, stored in errors.
C17_Witness ==
    /\ lastCall.op = "updateCell"
    /\ status = "playing"
    /\ errors # {}

\* C18: whenever status is "completed", the working board equals
\* solutionBoard cell for cell; the puzzle it completes has one completion
\* only, by countSolutions with limit 2.
C18_CompletedIsSolution ==
    status = "completed" =>
        /\ \A cell \in Cells(size) :
              board[cell[1]][cell[2]] = solutionBoard[cell[1]][cell[2]]
        /\ countSolutions(initialBoard, size, 2) = 1

\* A game that time was spent on has been completed.
C18_Witness ==
    /\ status = "completed"
    /\ LengthOf(board) # 0
    /\ elapsed > 0
    /\ board = solutionBoard

\* C19: in every state of a game, a hint target that is set names a cell that
\* is zero in the working board and in initialBoard and that has exactly one
\* non-conflicting value.
C19_HintFresh ==
    hintCell # NoCell =>
        /\ LengthOf(board) # 0
        /\ board[hintCell[1]][hintCell[2]] = 0
        /\ initialBoard[hintCell[1]][hintCell[2]] = 0
        /\ Qualifies(board, hintCell, size)

\* A hint target is still set after a later call that applied no edit.
C19_Witness ==
    /\ hintCell # NoCell
    /\ lastCall.op \in {"updateCell", "tick"}
    /\ lastCall.hint # NoCell

\* C20 as claimed: whatever the interleaving of the PUT requests, the stored
\* game's completedBy holds each username at most once.
C20_CompletedByOnce ==
    games # << >> =>
        \A u \in Users :
            Cardinality({k \in DOMAIN games[1].completedBy :
                            games[1].completedBy[k] = u}) <= 1

====
